---------------------------- MODULE Spec2Model ----------------------------
(***************************************************************************)
(* A model of ChessVar.py: a chess variant on an 8x8 board with kings,     *)
(* knights, bishops and rooks, in which a king wins by reaching rank 8 and *)
(* no move may leave either king attackable.                               *)
(*                                                                         *)
(* Squares are the texts the program receives: a Python string is a        *)
(* sequence of one-character strings, so 'a1' is <<"a", "1">>.  The board  *)
(* is the dictionary self._board: a function from the texts that are its   *)
(* keys to pieces.  A Python exception is modelled as a result that names  *)
(* it ("IndexError", "ValueError", "UnboundLocalError").                   *)
(*                                                                         *)
(* Spec is the game: calls of make_move from the default position.         *)
(* FunctionsSpec is one direct call of get_squares_between, of a piece's   *)
(* valid_move or of locate_kings, on arguments drawn in the initial state. *)
(***************************************************************************)
EXTENDS Integers, Sequences, FiniteSets, TLC

VARIABLES
    board,              \* self._board: key text -> piece
    turn,               \* self._turn: "w" or "b"
    state,              \* self._state
    game_end_imminent,  \* self._game_end_imminent
    result,             \* what the last make_move call returned or raised
    exit,               \* the return statement of can_make_move the last call left by
    ply,                \* number of make_move calls that returned True so far
    lines,              \* the book lines the accepted moves so far are a prefix of
    free,               \* number of accepted moves made off the book
    args,               \* the arguments of a direct call of one of the functions
    returned            \* <<>> before that call returns, <<value>> after

vars == <<board, turn, state, game_end_imminent, result, exit, ply, lines, free,
          args, returned>>

game == <<board, turn, state, game_end_imminent>>

-----------------------------------------------------------------------------
(* Bounds of the exploration *)

\* Number of accepted moves explored off the book, once the opening is played.
MaxFree == 1

\* Number of entries of the dictionaries locate_kings is called with directly.
MaxItems == 3

-----------------------------------------------------------------------------
(* Characters and texts *)

board_size == 8

FileChars == <<"a", "b", "c", "d", "e", "f", "g", "h", "i">>

DigitChars == <<"0", "1", "2", "3", "4", "5", "6", "7", "8", "9">>

Chars == {FileChars[i] : i \in 1..Len(FileChars)}
            \cup {DigitChars[i] : i \in 1..Len(DigitChars)} \cup {"x"}

\* The code points of the characters the model uses
CodePoint ==
    [c \in Chars |->
        IF \E i \in 1..Len(FileChars) : FileChars[i] = c
        THEN 96 + (CHOOSE i \in 1..Len(FileChars) : FileChars[i] = c)
        ELSE IF \E i \in 1..Len(DigitChars) : DigitChars[i] = c
        THEN 47 + (CHOOSE i \in 1..Len(DigitChars) : DigitChars[i] = c)
        ELSE 120]

\* ord(c)
ord(c) == CodePoint[c]

\* chr(n), the inverse of ord
chr(n) == CHOOSE c \in Chars : CodePoint[c] = n

is_digit(c) == \E i \in 1..Len(DigitChars) : DigitChars[i] = c

\* int(c) of a one-character string; int() raises ValueError on a non-digit
int(c) == ord(c) - 48

\* str(n) of a number 0..9
str(n) == chr(n + 48)

abs(n) == IF n < 0 THEN -n ELSE n

min(a, b) == IF a < b THEN a ELSE b

max(a, b) == IF a < b THEN b ELSE a

Files == {FileChars[i] : i \in 1..board_size}

Ranks == {DigitChars[i + 1] : i \in 1..board_size}

\* The squares of the board, as the two-character texts 'a1' .. 'h8'
Squares == {<<f, r>> : f \in Files, r \in Ranks}

\* Texts that are not squares of the board: '', 'a', 'i', 'ax', 'i1', 'a9',
\* 'a0', 'a10' and 'b30'
OtherTexts ==
    { <<>>, <<"a">>, <<"i">>, <<"a", "x">>, <<"i", "1">>, <<"a", "9">>,
      <<"a", "0">>, <<"a", "1", "0">>, <<"b", "3", "0">> }

\* The texts make_move is called with
Texts == Squares \cup OtherTexts

\* Exactly one letter a..h followed by one digit 1..8
WellFormed(t) == t \in Squares

Exceptions == {"IndexError", "ValueError", "UnboundLocalError"}

-----------------------------------------------------------------------------
(* Pieces *)

None == [kind |-> "none", color |-> "none"]

Piece(kind, color) == [kind |-> kind, color |-> color]

is_king(piece) == piece.kind = "king"

get_color(piece) == piece.color

can_jump(piece) == piece.kind = "knight"

King_valid_move(current, next) ==
    LET current_file == current[1]
        current_rank == current[2]
        next_file == next[1]
        next_rank == next[2]
    IN  IF abs(ord(current_file) - ord(next_file)) > 1 THEN FALSE
        ELSE IF abs(int(current_rank) - int(next_rank)) > 1 THEN FALSE
        ELSE TRUE

\* A faulty Knight.valid_move: the L is taken along the file axis only, two
\* files and one rank
Knight_valid_move_two_files_only(current, next) ==
    LET df == abs(ord(current[1]) - ord(next[1]))
        dr == abs(int(current[2]) - int(next[2]))
    IN  df = 2 /\ dr = 1

\* A faulty Knight.valid_move: without the third test (lines 98-100)
Knight_valid_move_two_tests(current, next) ==
    LET df == abs(ord(current[1]) - ord(next[1]))
        dr == abs(int(current[2]) - int(next[2]))
    IN  IF df # 2 /\ dr # 2 THEN FALSE
        ELSE IF df = 2 /\ dr # 1 THEN FALSE
        ELSE TRUE

Knight_valid_move(current, next) ==
    LET df == abs(ord(current[1]) - ord(next[1]))
        dr == abs(int(current[2]) - int(next[2]))
    IN  IF df # 2 /\ dr # 2 THEN FALSE
        ELSE IF df = 2 /\ dr # 1 THEN FALSE
        ELSE IF df # 1 /\ dr = 2 THEN FALSE
        ELSE TRUE

\* A faulty Bishop.valid_move: without abs(), so that only the diagonals
\* rising to the right pass
Bishop_valid_move_one_diagonal(current, next) ==
    IF ord(current[1]) - ord(next[1]) # int(current[2]) - int(next[2])
    THEN FALSE
    ELSE TRUE

Bishop_valid_move(current, next) ==
    IF abs(ord(current[1]) - ord(next[1])) # abs(int(current[2]) - int(next[2]))
    THEN FALSE
    ELSE TRUE

Rook_valid_move(current, next) ==
    IF current[1] # next[1] /\ current[2] # next[2] THEN FALSE ELSE TRUE

\* piece.valid_move(current, next): the method of the piece's class
valid_move(piece, current, next) ==
    CASE piece.kind = "king"   -> King_valid_move(current, next)
      [] piece.kind = "knight" -> Knight_valid_move(current, next)
      [] piece.kind = "bishop" -> Bishop_valid_move(current, next)
      [] piece.kind = "rook"   -> Rook_valid_move(current, next)

-----------------------------------------------------------------------------
(* The board *)

\* The dictionary built by setup_default_start_pos
DefaultBoard ==
    (<<"a", "1">> :> Piece("king", "w"))   @@ (<<"a", "2">> :> Piece("rook", "w")) @@
    (<<"b", "1">> :> Piece("bishop", "w")) @@ (<<"b", "2">> :> Piece("bishop", "w")) @@
    (<<"c", "1">> :> Piece("knight", "w")) @@ (<<"c", "2">> :> Piece("knight", "w")) @@
    (<<"h", "1">> :> Piece("king", "b"))   @@ (<<"h", "2">> :> Piece("rook", "b")) @@
    (<<"g", "1">> :> Piece("bishop", "b")) @@ (<<"g", "2">> :> Piece("bishop", "b")) @@
    (<<"f", "1">> :> Piece("knight", "b")) @@ (<<"f", "2">> :> Piece("knight", "b"))

get_piece_at_square(b, square) ==
    IF square \notin DOMAIN b THEN None ELSE b[square]

\* "True", "False", or the exception the indexing or int() raises.  The `or`
\* is short-circuited: the rank is read only when the file is in range.
is_valid_square(square) ==
    IF Len(square) < 1 THEN "IndexError"
    ELSE IF ~(97 <= ord(square[1]) /\ ord(square[1]) <= 97 + board_size - 1)
    THEN "False"
    ELSE IF Len(square) < 2 THEN "IndexError"
    ELSE IF ~is_digit(square[2]) THEN "ValueError"
    ELSE IF ~(1 <= int(square[2]) /\ int(square[2]) <= board_size) THEN "False"
    ELSE "True"

\* A faulty change_turns: without the branch that gives the turn back to White
change_turns_one_way(t) == IF t = "w" THEN "b" ELSE t

change_turns(t) == IF t = "w" THEN "b" ELSE IF t = "b" THEN "w" ELSE t

\* range(lo, hi) as a sequence
range(lo, hi) == [i \in 1..max(hi - lo, 0) |-> lo + i - 1]

reverse(s) == [i \in 1..Len(s) |-> s[Len(s) + 1 - i]]

\* A faulty get_squares_between: the ranges run one step too far, up to and
\* including the larger endpoint
get_squares_between_to_endpoint(curr_square, new_square) ==
    LET curr_file == ord(curr_square[1])
        new_file == ord(new_square[1])
        curr_rank == int(curr_square[2])
        new_rank == int(new_square[2])
        delta_file == abs(curr_file - new_file)
        delta_rank == abs(curr_rank - new_rank)
        rank_range == range(min(curr_rank, new_rank) + 1, max(curr_rank, new_rank) + 1)
        file_range == range(min(curr_file, new_file) + 1, max(curr_file, new_file) + 1)
    IN  IF delta_file = 0
        THEN [i \in 1..Len(rank_range) |-> <<chr(curr_file), str(rank_range[i])>>]
        ELSE IF delta_rank = 0
        THEN [i \in 1..Len(file_range) |-> <<chr(file_range[i]), str(curr_rank)>>]
        ELSE IF delta_file = delta_rank
        THEN LET nums0 == [i \in 1..Len(rank_range) |-> str(rank_range[i])]
                 nums == IF new_rank < curr_rank THEN reverse(nums0) ELSE nums0
                 chars0 == [i \in 1..Len(file_range) |-> chr(file_range[i])]
                 chars == IF new_file < curr_file THEN reverse(chars0) ELSE chars0
             IN  [idx \in 1..Len(chars) |-> <<chars[idx], nums[idx]>>]
        ELSE <<>>

\* A faulty get_squares_between: without the two reversals of the diagonal
\* branch (lines 316-317 and 322-323)
get_squares_between_never_reversed(curr_square, new_square) ==
    LET curr_file == ord(curr_square[1])
        new_file == ord(new_square[1])
        curr_rank == int(curr_square[2])
        new_rank == int(new_square[2])
        delta_file == abs(curr_file - new_file)
        delta_rank == abs(curr_rank - new_rank)
        rank_range == range(min(curr_rank, new_rank) + 1, max(curr_rank, new_rank))
        file_range == range(min(curr_file, new_file) + 1, max(curr_file, new_file))
    IN  IF delta_file = 0
        THEN [i \in 1..Len(rank_range) |-> <<chr(curr_file), str(rank_range[i])>>]
        ELSE IF delta_rank = 0
        THEN [i \in 1..Len(file_range) |-> <<chr(file_range[i]), str(curr_rank)>>]
        ELSE IF delta_file = delta_rank
        THEN LET nums == [i \in 1..Len(rank_range) |-> str(rank_range[i])]
                 chars == [i \in 1..Len(file_range) |-> chr(file_range[i])]
             IN  [idx \in 1..Len(chars) |-> <<chars[idx], nums[idx]>>]
        ELSE <<>>

get_squares_between(curr_square, new_square) ==
    LET curr_file == ord(curr_square[1])
        new_file == ord(new_square[1])
        curr_rank == int(curr_square[2])
        new_rank == int(new_square[2])
        delta_file == abs(curr_file - new_file)
        delta_rank == abs(curr_rank - new_rank)
        rank_range == range(min(curr_rank, new_rank) + 1, max(curr_rank, new_rank))
        file_range == range(min(curr_file, new_file) + 1, max(curr_file, new_file))
    IN  IF delta_file = 0
        THEN [i \in 1..Len(rank_range) |-> <<chr(curr_file), str(rank_range[i])>>]
        ELSE IF delta_rank = 0
        THEN [i \in 1..Len(file_range) |-> <<chr(file_range[i]), str(curr_rank)>>]
        ELSE IF delta_file = delta_rank
        THEN LET nums0 == [i \in 1..Len(rank_range) |-> str(rank_range[i])]
                 nums == IF new_rank < curr_rank THEN reverse(nums0) ELSE nums0
                 chars0 == [i \in 1..Len(file_range) |-> chr(file_range[i])]
                 chars == IF new_file < curr_file THEN reverse(chars0) ELSE chars0
             IN  [idx \in 1..Len(chars) |-> <<chars[idx], nums[idx]>>]
        ELSE <<>>

\* The squares of the kings of a colour on board b
KingSquares(b, color) ==
    {sq \in DOMAIN b : is_king(b[sq]) /\ get_color(b[sq]) = color}

\* locate_kings on a dictionary given as the sequence of its items, in the
\* order board.items() yields them: each king found overwrites the square
\* kept for its colour, so the last king of a colour is the one returned, and
\* a colour without a king leaves its variable unassigned.
locate_kings_of_items(items) ==
    LET Found(color) == {i \in 1..Len(items) :
                            /\ is_king(items[i].piece)
                            /\ get_color(items[i].piece) = color}
        Last(S) == CHOOSE i \in S : \A j \in S : j <= i
    IN  IF Found("w") = {} \/ Found("b") = {}
        THEN "UnboundLocalError"
        ELSE <<items[Last(Found("w"))].square, items[Last(Found("b"))].square>>

\* <<white king's square, black king's square>>, or "UnboundLocalError" when
\* the loop assigned no square for a colour.  With several kings of a colour
\* the loop keeps the last one in the dictionary's order.
locate_kings(b) ==
    IF KingSquares(b, "w") = {} \/ KingSquares(b, "b") = {}
    THEN "UnboundLocalError"
    ELSE <<CHOOSE sq \in KingSquares(b, "w") : TRUE,
           CHOOSE sq \in KingSquares(b, "b") : TRUE>>

at_highest_rank(square) == int(square[2]) = board_size

-----------------------------------------------------------------------------
(* The rules engine *)

RECURSIVE can_make_move_exit(_, _, _, _)
RECURSIVE results_in_check(_, _, _)

\* A faulty move: without del b[curr_square], the piece stays on its square too
MovePiece_keeping_source(b, curr_square, new_square) ==
    [sq \in DOMAIN b \cup {new_square} |->
        IF sq = new_square THEN b[curr_square] ELSE b[sq]]

\* The board after the piece on curr_square is moved to new_square:
\* del b[curr_square]; b[new_square] = moving_piece
MovePiece(b, curr_square, new_square) ==
    [sq \in (DOMAIN b \ {curr_square}) \cup {new_square} |->
        IF sq = new_square THEN b[curr_square] ELSE b[sq]]

\* Whether some piece of b is in the way between the two squares
PathBlocked(b, curr_square, new_square) ==
    LET between == get_squares_between(curr_square, new_square)
    IN  \E i \in 1..Len(between) : between[i] \in DOMAIN b

\* A faulty can_make_move: without the path obstruction test (lines 401-405)
can_make_move_exit_through_pieces(b, curr_square, new_square, hypothetical_position) ==
    LET moving_piece == get_piece_at_square(b, curr_square)
        valid == is_valid_square(new_square)
        target == get_piece_at_square(b, new_square)
    IN  IF state # "UNFINISHED" THEN "game_over"
        ELSE IF moving_piece = None THEN "no_piece"
        ELSE IF ~hypothetical_position /\ get_color(moving_piece) # turn
        THEN "not_turn_owner"
        ELSE IF valid \in Exceptions THEN valid
        ELSE IF valid = "False" THEN "off_board"
        ELSE IF ~valid_move(moving_piece, curr_square, new_square) THEN "bad_shape"
        ELSE IF target # None /\ get_color(target) = get_color(moving_piece)
        THEN "friendly_capture"
        ELSE IF hypothetical_position THEN "ok"
        ELSE LET check == results_in_check(b, curr_square, new_square)
             IN  IF check \in Exceptions THEN check
                 ELSE IF check = "True" THEN "check"
                 ELSE "ok"

\* A faulty can_make_move: without the test of self._state (lines 375-377)
can_make_move_exit_after_game_over(b, curr_square, new_square, hypothetical_position) ==
    LET moving_piece == get_piece_at_square(b, curr_square)
        valid == is_valid_square(new_square)
        target == get_piece_at_square(b, new_square)
    IN  IF moving_piece = None THEN "no_piece"
        ELSE IF ~hypothetical_position /\ get_color(moving_piece) # turn
        THEN "not_turn_owner"
        ELSE IF valid \in Exceptions THEN valid
        ELSE IF valid = "False" THEN "off_board"
        ELSE IF ~valid_move(moving_piece, curr_square, new_square) THEN "bad_shape"
        ELSE IF target # None /\ get_color(target) = get_color(moving_piece)
        THEN "friendly_capture"
        ELSE IF ~can_jump(moving_piece) /\ PathBlocked(b, curr_square, new_square)
        THEN "blocked"
        ELSE IF hypothetical_position THEN "ok"
        ELSE LET check == results_in_check(b, curr_square, new_square)
             IN  IF check \in Exceptions THEN check
                 ELSE IF check = "True" THEN "check"
                 ELSE "ok"

\* A faulty can_make_move: without the turn owner test (lines 383-386)
can_make_move_exit_any_colour(b, curr_square, new_square, hypothetical_position) ==
    LET moving_piece == get_piece_at_square(b, curr_square)
        valid == is_valid_square(new_square)
        target == get_piece_at_square(b, new_square)
    IN  IF state # "UNFINISHED" THEN "game_over"
        ELSE IF moving_piece = None THEN "no_piece"
        ELSE IF valid \in Exceptions THEN valid
        ELSE IF valid = "False" THEN "off_board"
        ELSE IF ~valid_move(moving_piece, curr_square, new_square) THEN "bad_shape"
        ELSE IF target # None /\ get_color(target) = get_color(moving_piece)
        THEN "friendly_capture"
        ELSE IF ~can_jump(moving_piece) /\ PathBlocked(b, curr_square, new_square)
        THEN "blocked"
        ELSE IF hypothetical_position THEN "ok"
        ELSE LET check == results_in_check(b, curr_square, new_square)
             IN  IF check \in Exceptions THEN check
                 ELSE IF check = "True" THEN "check"
                 ELSE "ok"

\* A faulty can_make_move: without the friendly capture test (lines 396-399)
can_make_move_exit_friendly_fire(b, curr_square, new_square, hypothetical_position) ==
    LET moving_piece == get_piece_at_square(b, curr_square)
        valid == is_valid_square(new_square)
        target == get_piece_at_square(b, new_square)
    IN  IF state # "UNFINISHED" THEN "game_over"
        ELSE IF moving_piece = None THEN "no_piece"
        ELSE IF ~hypothetical_position /\ get_color(moving_piece) # turn
        THEN "not_turn_owner"
        ELSE IF valid \in Exceptions THEN valid
        ELSE IF valid = "False" THEN "off_board"
        ELSE IF ~valid_move(moving_piece, curr_square, new_square) THEN "bad_shape"
        ELSE IF ~can_jump(moving_piece) /\ PathBlocked(b, curr_square, new_square)
        THEN "blocked"
        ELSE IF hypothetical_position THEN "ok"
        ELSE LET check == results_in_check(b, curr_square, new_square)
             IN  IF check \in Exceptions THEN check
                 ELSE IF check = "True" THEN "check"
                 ELSE "ok"

\* A faulty can_make_move: without the call of results_in_check (lines 407-410)
can_make_move_exit_unchecked(b, curr_square, new_square, hypothetical_position) ==
    LET moving_piece == get_piece_at_square(b, curr_square)
        valid == is_valid_square(new_square)
        target == get_piece_at_square(b, new_square)
    IN  IF state # "UNFINISHED" THEN "game_over"
        ELSE IF moving_piece = None THEN "no_piece"
        ELSE IF ~hypothetical_position /\ get_color(moving_piece) # turn
        THEN "not_turn_owner"
        ELSE IF valid \in Exceptions THEN valid
        ELSE IF valid = "False" THEN "off_board"
        ELSE IF ~valid_move(moving_piece, curr_square, new_square) THEN "bad_shape"
        ELSE IF target # None /\ get_color(target) = get_color(moving_piece)
        THEN "friendly_capture"
        ELSE IF ~can_jump(moving_piece) /\ PathBlocked(b, curr_square, new_square)
        THEN "blocked"
        ELSE "ok"

\* can_make_move, as the return statement it leaves by ("ok" is the final
\* return True) or the exception it raises.  It reads self._state and
\* self._turn.
can_make_move_exit(b, curr_square, new_square, hypothetical_position) ==
    LET moving_piece == get_piece_at_square(b, curr_square)
        valid == is_valid_square(new_square)
        target == get_piece_at_square(b, new_square)
    IN  IF state # "UNFINISHED" THEN "game_over"
        ELSE IF moving_piece = None THEN "no_piece"
        ELSE IF ~hypothetical_position /\ get_color(moving_piece) # turn
        THEN "not_turn_owner"
        ELSE IF valid \in Exceptions THEN valid
        ELSE IF valid = "False" THEN "off_board"
        ELSE IF ~valid_move(moving_piece, curr_square, new_square) THEN "bad_shape"
        ELSE IF target # None /\ get_color(target) = get_color(moving_piece)
        THEN "friendly_capture"
        ELSE IF ~can_jump(moving_piece) /\ PathBlocked(b, curr_square, new_square)
        THEN "blocked"
        ELSE IF hypothetical_position THEN "ok"
        ELSE LET check == results_in_check(b, curr_square, new_square)
             IN  IF check \in Exceptions THEN check
                 ELSE IF check = "True" THEN "check"
                 ELSE "ok"

\* What can_make_move returns ("True", "False") or raises
ReturnOf(e) ==
    IF e = "ok" THEN "True" ELSE IF e \in Exceptions THEN e ELSE "False"

can_make_move(b, curr_square, new_square, hypothetical_position) ==
    ReturnOf(can_make_move_exit(b, curr_square, new_square, hypothetical_position))

\* results_in_check on the live board b = self._board: "True", "False", or the
\* exception locate_kings raises on the hypothetical board
results_in_check(b, curr_square, new_square) ==
    LET hypothetical_board == MovePiece(b, curr_square, new_square)
        kings == locate_kings(hypothetical_board)
    IN  IF kings \in Exceptions THEN kings
        ELSE IF \E square \in DOMAIN hypothetical_board :
                   LET piece == hypothetical_board[square]
                       king == IF get_color(piece) = "b" THEN kings[1] ELSE kings[2]
                   IN  can_make_move(hypothetical_board, square, king, TRUE) = "True"
        THEN "True"
        ELSE "False"

\* A faulty update_game_state: without the grace turn, White wins as soon as
\* its king is alone on the last rank
update_game_state_no_grace(b, st, gei) ==
    LET kings == locate_kings(b)
    IN  IF kings \in Exceptions
        THEN [state |-> st, game_end_imminent |-> gei, raised |-> kings]
        ELSE LET w == at_highest_rank(kings[1])
                 k == at_highest_rank(kings[2])
             IN  IF k /\ ~w
                 THEN [state |-> "BLACK_WON", game_end_imminent |-> gei, raised |-> "None"]
                 ELSE IF k /\ w
                 THEN [state |-> "TIE", game_end_imminent |-> gei, raised |-> "None"]
                 ELSE IF w
                 THEN [state |-> "WHITE_WON", game_end_imminent |-> gei, raised |-> "None"]
                 ELSE [state |-> st, game_end_imminent |-> gei, raised |-> "None"]

\* A faulty update_game_state: with a grace turn for White as well, Black's
\* king alone on the last rank only raises the flag
update_game_state_grace_for_both(b, st, gei) ==
    LET kings == locate_kings(b)
    IN  IF kings \in Exceptions
        THEN [state |-> st, game_end_imminent |-> gei, raised |-> kings]
        ELSE LET w == at_highest_rank(kings[1])
                 k == at_highest_rank(kings[2])
             IN  IF k /\ ~w /\ gei
                 THEN [state |-> "BLACK_WON", game_end_imminent |-> gei, raised |-> "None"]
                 ELSE IF k /\ w
                 THEN [state |-> "TIE", game_end_imminent |-> gei, raised |-> "None"]
                 ELSE IF (w \/ k) /\ ~gei
                 THEN [state |-> st, game_end_imminent |-> TRUE, raised |-> "None"]
                 ELSE IF w /\ gei
                 THEN [state |-> "WHITE_WON", game_end_imminent |-> gei, raised |-> "None"]
                 ELSE [state |-> st, game_end_imminent |-> gei, raised |-> "None"]

\* update_game_state on board b with the flag gei: the new state and flag, and
\* the exception locate_kings raises, if any ("None" otherwise)
update_game_state(b, st, gei) ==
    LET kings == locate_kings(b)
    IN  IF kings \in Exceptions
        THEN [state |-> st, game_end_imminent |-> gei, raised |-> kings]
        ELSE LET w == at_highest_rank(kings[1])
                 k == at_highest_rank(kings[2])
             IN  IF k /\ ~w
                 THEN [state |-> "BLACK_WON", game_end_imminent |-> gei, raised |-> "None"]
                 ELSE IF k /\ w
                 THEN [state |-> "TIE", game_end_imminent |-> gei, raised |-> "None"]
                 ELSE IF w /\ ~gei
                 THEN [state |-> st, game_end_imminent |-> TRUE, raised |-> "None"]
                 ELSE IF w /\ gei
                 THEN [state |-> "WHITE_WON", game_end_imminent |-> gei, raised |-> "None"]
                 ELSE [state |-> st, game_end_imminent |-> gei, raised |-> "None"]

\* A faulty make_move: results_in_check tries the move on the live board
\* instead of a copy, so that a move rejected for giving check stays made
make_move_effect_on_live_board(curr_square, new_square) ==
    LET e == can_make_move_exit(board, curr_square, new_square, FALSE)
    IN  IF ReturnOf(e) = "True"
        THEN LET b == MovePiece(board, curr_square, new_square)
                 u == update_game_state(b, state, game_end_imminent)
             IN  [result |-> IF u.raised = "None" THEN "True" ELSE u.raised,
                  exit |-> e,
                  moved |-> TRUE,
                  board |-> b,
                  turn |-> change_turns(turn),
                  state |-> u.state,
                  game_end_imminent |-> u.game_end_imminent]
        ELSE [result |-> ReturnOf(e),
              exit |-> e,
              moved |-> FALSE,
              board |-> IF e = "check"
                        THEN MovePiece(board, curr_square, new_square)
                        ELSE board,
              turn |-> turn,
              state |-> state,
              game_end_imminent |-> game_end_imminent]

\* The whole effect of make_move(curr_square, new_square) in the current
\* state: what it returns or raises, whether it moved the piece, and the
\* fields it leaves behind
make_move_effect(curr_square, new_square) ==
    LET e == can_make_move_exit(board, curr_square, new_square, FALSE)
    IN  IF ReturnOf(e) = "True"
        THEN LET b == MovePiece(board, curr_square, new_square)
                 u == update_game_state(b, state, game_end_imminent)
             IN  [result |-> IF u.raised = "None" THEN "True" ELSE u.raised,
                  exit |-> e,
                  moved |-> TRUE,
                  board |-> b,
                  turn |-> change_turns(turn),
                  state |-> u.state,
                  game_end_imminent |-> u.game_end_imminent]
        ELSE [result |-> ReturnOf(e),
              exit |-> e,
              moved |-> FALSE,
              board |-> board,
              turn |-> turn,
              state |-> state,
              game_end_imminent |-> game_end_imminent]

-----------------------------------------------------------------------------
(* The explored lines of play *)

\* Twenty-six accepted moves from the default position, after which the White
\* king stands on a7 and the Black king on d7, White to move, with a White
\* rook on a8, a White bishop on c2 and a Black knight on d2
Opening ==
    << <<<<"c", "1">>, <<"d", "3">>>>, <<<<"f", "2">>, <<"d", "3">>>>,
       <<<<"a", "2">>, <<"a", "3">>>>, <<<<"d", "3">>, <<"b", "2">>>>,
       <<<<"a", "1">>, <<"b", "2">>>>, <<<<"g", "1">>, <<"a", "7">>>>,
       <<<<"a", "3">>, <<"a", "7">>>>, <<<<"g", "2">>, <<"a", "8">>>>,
       <<<<"a", "7">>, <<"a", "8">>>>, <<<<"h", "1">>, <<"g", "1">>>>,
       <<<<"b", "2">>, <<"a", "1">>>>, <<<<"h", "2">>, <<"c", "2">>>>,
       <<<<"b", "1">>, <<"c", "2">>>>, <<<<"f", "1">>, <<"d", "2">>>>,
       <<<<"a", "1">>, <<"a", "2">>>>, <<<<"g", "1">>, <<"f", "2">>>>,
       <<<<"a", "2">>, <<"a", "3">>>>, <<<<"f", "2">>, <<"e", "3">>>>,
       <<<<"a", "3">>, <<"a", "4">>>>, <<<<"e", "3">>, <<"d", "4">>>>,
       <<<<"a", "4">>, <<"a", "5">>>>, <<<<"d", "4">>, <<"c", "5">>>>,
       <<<<"a", "5">>, <<"a", "6">>>>, <<<<"c", "5">>, <<"c", "6">>>>,
       <<<<"a", "6">>, <<"a", "7">>>>, <<<<"c", "6">>, <<"d", "7">>>> >>

\* The book: the opening followed by
\*   the White king's step onto rank 8 and the Black king's step onto rank 8;
\*   the White king's step onto rank 8 and a Black knight move;
\*   a White rook move and the Black king's step onto rank 8.
Lines ==
    << Opening \o << <<<<"a", "7">>, <<"b", "8">>>>, <<<<"d", "7">>, <<"d", "8">>>> >>,
       Opening \o << <<<<"a", "7">>, <<"b", "8">>>>, <<<<"d", "2">>, <<"b", "1">>>> >>,
       Opening \o << <<<<"a", "8">>, <<"c", "8">>>>, <<<<"d", "7">>, <<"c", "8">>>> >> >>

\* The book lines that the call continues
BookLines(curr_square, new_square) ==
    {i \in lines : /\ ply < Len(Lines[i])
                   /\ Lines[i][ply + 1] = <<curr_square, new_square>>}

-----------------------------------------------------------------------------
(* The state machine *)

Init ==
    /\ board = DefaultBoard
    /\ turn = "w"
    /\ game_end_imminent = FALSE
    /\ state = "UNFINISHED"
    /\ result = "None"
    /\ exit = "None"
    /\ ply = 0
    /\ lines = 1..Len(Lines)
    /\ free = 0
    /\ args = [fn |-> "make_move"]
    /\ returned = <<>>

\* One call of make_move.  A call that moves no piece is explored in every
\* state; one that moves a piece is explored when it follows the book or,
\* the opening played, when it is one of the MaxFree moves off the book.
make_move(curr_square, new_square) ==
    \E eff \in {make_move_effect(curr_square, new_square)} :
        /\ \/ /\ ~eff.moved
              /\ UNCHANGED <<lines, free>>
           \/ /\ eff.moved
              /\ BookLines(curr_square, new_square) # {}
              /\ lines' = BookLines(curr_square, new_square)
              /\ UNCHANGED free
           \/ /\ eff.moved
              /\ BookLines(curr_square, new_square) = {}
              /\ ply >= Len(Opening)
              /\ free < MaxFree
              /\ lines' = {}
              /\ free' = free + 1
        /\ board' = eff.board
        /\ turn' = eff.turn
        /\ state' = eff.state
        /\ game_end_imminent' = eff.game_end_imminent
        /\ result' = eff.result
        /\ exit' = eff.exit
        /\ ply' = IF eff.result = "True" THEN ply + 1 ELSE ply
        /\ UNCHANGED <<args, returned>>

\* The destinations tried with a source.  can_make_move returns before it
\* reads new_square when the game is over, when curr_square holds no piece and
\* when the piece is not the turn owner's: the call then has the same effect
\* for every destination, and one destination stands for all.
Destinations(curr_square) ==
    IF can_make_move_exit(board, curr_square, <<>>, FALSE)
           \in {"game_over", "no_piece", "not_turn_owner"}
    THEN {<<>>}
    ELSE Texts

Next == \E curr_square \in Texts :
            \E new_square \in Destinations(curr_square) :
                make_move(curr_square, new_square)

Spec == Init /\ [][Next]_vars

-----------------------------------------------------------------------------
(* Direct calls of the functions *)

\* The squares and pieces of the dictionaries locate_kings is called with
ItemSquares == {<<"a", "1">>, <<"h", "1">>, <<"a", "8">>, <<"h", "8">>}

ItemPieces == {Piece("king", "w"), Piece("king", "b"), Piece("rook", "w")}

\* Dictionaries of at most MaxItems entries, as the sequences of their items
ItemLists ==
    {items \in UNION {[1..n -> [square : ItemSquares, piece : ItemPieces]] :
                         n \in 0..MaxItems} :
        \A i, j \in 1..Len(items) : items[i].square = items[j].square => i = j}

PieceKinds == {"king", "knight", "bishop", "rook"}

\* The calls made: get_squares_between and valid_move on every pair of squares
\* of the board, locate_kings on every dictionary of ItemLists
Calls ==
    [fn : {"get_squares_between"}, curr_square : Squares, new_square : Squares]
    \cup [fn : {"valid_move"}, piece : {Piece(k, c) : k \in PieceKinds, c \in {"w", "b"}},
          current : Squares, next : Squares]
    \cup [fn : {"locate_kings"}, board : ItemLists]

FunctionsInit ==
    /\ board = DefaultBoard
    /\ turn = "w"
    /\ game_end_imminent = FALSE
    /\ state = "UNFINISHED"
    /\ result = "None"
    /\ exit = "None"
    /\ ply = 0
    /\ lines = {}
    /\ free = 0
    /\ args \in Calls
    /\ returned = <<>>

call_get_squares_between ==
    /\ args.fn = "get_squares_between"
    /\ returned = <<>>
    /\ returned' = <<get_squares_between(args.curr_square, args.new_square)>>
    /\ UNCHANGED <<board, turn, state, game_end_imminent, result, exit, ply,
                   lines, free, args>>

call_valid_move ==
    /\ args.fn = "valid_move"
    /\ returned = <<>>
    /\ returned' = <<valid_move(args.piece, args.current, args.next)>>
    /\ UNCHANGED <<board, turn, state, game_end_imminent, result, exit, ply,
                   lines, free, args>>

call_locate_kings ==
    /\ args.fn = "locate_kings"
    /\ returned = <<>>
    /\ returned' = <<locate_kings_of_items(args.board)>>
    /\ UNCHANGED <<board, turn, state, game_end_imminent, result, exit, ply,
                   lines, free, args>>

FunctionsNext ==
    \/ call_get_squares_between
    \/ call_valid_move
    \/ call_locate_kings

FunctionsSpec == FunctionsInit /\ [][FunctionsNext]_vars

-----------------------------------------------------------------------------
(* Vocabulary of the properties *)

Terminal == {"WHITE_WON", "BLACK_WON", "TIE"}

\* Whether the king of a colour stands on rank 8 of board b
KingOnGoal(b, color) == \E sq \in KingSquares(b, color) : at_highest_rank(sq)

\* Whether the piece on square from of board b can reach square target under
\* the shape, friendly capture and path obstruction rules
Attacks(b, from, target) ==
    /\ valid_move(b[from], from, target)
    /\ ~(target \in DOMAIN b /\ get_color(b[target]) = get_color(b[from]))
    /\ (can_jump(b[from]) \/ ~PathBlocked(b, from, target))

\* Whether some piece of the other colour can reach the king on square k
Attackable(b, k) ==
    \E sq \in DOMAIN b : get_color(b[sq]) # get_color(b[k]) /\ Attacks(b, sq, k)

-----------------------------------------------------------------------------
(* Properties *)

\* C1: whenever make_move returns False, the board, the turn, the game state
\* and the grace flag are what they were before the call.
C1_RejectionChangesNothing ==
    [][result' = "False" => (UNCHANGED game)]_vars

\* A move was rejected because it would give check: the hypothetical board
\* was built and thrown away.
C1_Witness == result = "False" /\ exit = "check"

\* C2: in every reachable state no king is attackable: no piece of the other
\* colour can reach a king's square under the shape, friendly capture and path
\* obstruction rules.
C2_NoKingAttackable ==
    \A k \in DOMAIN board : is_king(board[k]) => ~Attackable(board, k)

\* A move was accepted after which a rook or bishop of the other colour is
\* lined up with a king and only an obstruction keeps the king safe.
C2_Witness ==
    /\ result = "True"
    /\ \E k \in DOMAIN board, sq \in DOMAIN board :
          /\ is_king(board[k])
          /\ get_color(board[sq]) # get_color(board[k])
          /\ board[sq].kind \in {"rook", "bishop"}
          /\ valid_move(board[sq], sq, k)
          /\ PathBlocked(board, sq, k)

\* C3: once the state is WHITE_WON, BLACK_WON or TIE, every make_move call
\* returns False and the state, the turn and the board never change again.
C3_TerminalAbsorbing ==
    [][(state \in Terminal) => (result' = "False" /\ UNCHANGED game)]_vars

\* A call was made, and rejected, after the game had ended.
C3_Witness == state \in Terminal /\ result = "False" /\ exit = "game_over"

\* C4: the turn starts as White, toggles on every call that returns True, the
\* one that ends the game included, and on no other call; so the turn is White
\* after an even number of accepted moves and Black after an odd number.
C4_TurnAlternates ==
    /\ turn = "w"
    /\ [][/\ (result' = "True") => (turn' = change_turns(turn) /\ turn' # turn)
          /\ (result' # "True") => (turn' = turn)]_vars
    /\ [](turn = IF ply % 2 = 0 THEN "w" ELSE "b")

\* The move that ended the game was the second of a pair: the turn is back
\* with White.
C4_Witness ==
    state \in Terminal /\ result = "True" /\ ply % 2 = 0 /\ turn = "w"

\* C5: an accepted move that puts the White king on rank 8 while the Black
\* king is not there leaves the state UNFINISHED and raises the grace flag;
\* the next accepted move ends the game, as a TIE if it lands the Black king
\* on rank 8 and as WHITE_WON otherwise.
C5_GraceTurn ==
    [][/\ (/\ result' = "True"
           /\ ~KingOnGoal(board, "w")
           /\ KingOnGoal(board', "w")
           /\ ~KingOnGoal(board', "b"))
          => (state' = "UNFINISHED" /\ game_end_imminent' /\ ~game_end_imminent)
       /\ (game_end_imminent /\ state = "UNFINISHED" /\ result' = "True")
          => (state' = IF KingOnGoal(board', "b") THEN "TIE" ELSE "WHITE_WON")
      ]_vars

\* The grace turn was given and Black used it to bring its king to rank 8.
C5_Witness ==
    state = "TIE" /\ game_end_imminent /\ result = "True"

\* The grace turn was given and Black used it for something else.
C5_WitnessWhiteWon ==
    state = "WHITE_WON" /\ game_end_imminent /\ result = "True"

\* C6: an accepted move after which the Black king is on rank 8 and the White
\* king is not sets the state to BLACK_WON in the same call, without raising
\* the grace flag, and no call is accepted after it.
C6_BlackWinsAtOnce ==
    [][/\ (/\ result' = "True"
           /\ KingOnGoal(board', "b")
           /\ ~KingOnGoal(board', "w"))
          => (state' = "BLACK_WON" /\ game_end_imminent' = game_end_imminent)
       /\ (state = "BLACK_WON") => (result' # "True")
      ]_vars

\* The Black king stepped onto rank 8 with the White king elsewhere.
C6_Witness ==
    /\ state = "BLACK_WON"
    /\ result = "True"
    /\ KingOnGoal(board, "b")
    /\ ~KingOnGoal(board, "w")

\* C7: every reachable board holds exactly one White king and exactly one
\* Black king.
C7_OneKingEach ==
    /\ Cardinality(KingSquares(board, "w")) = 1
    /\ Cardinality(KingSquares(board, "b")) = 1

\* A king has just captured a piece.
C7_Witness ==
    /\ result = "True"
    /\ Cardinality(DOMAIN board) < Cardinality(DOMAIN DefaultBoard)
    /\ \E i \in lines : ply > 0 /\ ply <= Len(Lines[i])
                         /\ is_king(board[Lines[i][ply][2]])

\* C8: for any text given as source or destination, texts that are not one
\* letter followed by one digit included, make_move returns False, raises no
\* error and leaves board, turn and state untouched.
C8_MalformedTextRejected ==
    \A curr_square \in Texts, new_square \in Texts :
        (~WellFormed(curr_square) \/ ~WellFormed(new_square))
        => LET eff == make_move_effect(curr_square, new_square)
           IN  /\ eff.result = "False"
               /\ eff.board = board
               /\ eff.turn = turn
               /\ eff.state = state

\* C9: make_move returns False whenever the source square is empty or holds a
\* piece that is not the turn owner's, and every accepted move relocates a
\* piece of the colour whose turn it was.
C9_OnlyTurnOwnerMoves ==
    /\ [](\A curr_square \in Texts, new_square \in Texts :
             (\/ get_piece_at_square(board, curr_square) = None
              \/ get_color(get_piece_at_square(board, curr_square)) # turn)
             => make_move_effect(curr_square, new_square).result = "False")
    /\ [][(result' = "True")
          => \E curr_square \in DOMAIN board, new_square \in DOMAIN board' :
                 /\ get_color(board[curr_square]) = turn
                 /\ board' = MovePiece(board, curr_square, new_square)]_vars

\* A call was rejected because the piece on the source square was not the
\* turn owner's.
C9_Witness == result = "False" /\ exit = "not_turn_owner"

\* C10: make_move returns False whenever the destination holds a piece of the
\* colour of the moving piece; in the default starting position the White
\* king's move from a1 to a2, where the White rook stands, is rejected.
C10_NoFriendlyCapture ==
    /\ \A curr_square \in DOMAIN board, new_square \in DOMAIN board :
           (get_color(board[curr_square]) = get_color(board[new_square]))
           => make_move_effect(curr_square, new_square).result = "False"
    /\ (board = DefaultBoard /\ turn = "w" /\ state = "UNFINISHED")
       => LET eff == make_move_effect(<<"a", "1">>, <<"a", "2">>)
          IN  eff.result = "False" /\ eff.exit = "friendly_capture"

\* In the default starting position a move onto a piece of the mover's colour
\* was rejected for that reason.
C10_Witness ==
    board = DefaultBoard /\ result = "False" /\ exit = "friendly_capture"

\* The default starting position with the White knight of c1 on d3
AfterC1D3 ==
    [sq \in (DOMAIN DefaultBoard \ {<<"c", "1">>}) \cup {<<"d", "3">>} |->
        IF sq = <<"d", "3">> THEN Piece("knight", "w") ELSE DefaultBoard[sq]]

\* C11: in the default starting position make_move('c1', 'd3') returns True;
\* afterwards c1 is empty, d3 holds the White knight, every other square is as
\* it was, the turn is Black and the state is UNFINISHED.
C11_KnightOpening ==
    (/\ board = DefaultBoard
     /\ turn = "w"
     /\ state = "UNFINISHED"
     /\ ~game_end_imminent)
    => LET eff == make_move_effect(<<"c", "1">>, <<"d", "3">>)
       IN  /\ eff.result = "True"
           /\ eff.board = AfterC1D3
           /\ <<"c", "1">> \notin DOMAIN eff.board
           /\ eff.board[<<"d", "3">>] = Piece("knight", "w")
           /\ eff.turn = "b"
           /\ eff.state = "UNFINISHED"

\* The knight has made the move: the first accepted call left the board with
\* the knight on d3.
C11_Witness ==
    /\ ply = 1
    /\ result = "True"
    /\ board = AfterC1D3
    /\ turn = "b"
    /\ state = "UNFINISHED"

\* The file and rank of a square of the board, as numbers 1..8
FileOf(sq) == CHOOSE i \in 1..board_size : FileChars[i] = sq[1]

RankOf(sq) == CHOOSE i \in 1..board_size : DigitChars[i + 1] = sq[2]

\* The square with a file and a rank number
SquareAt(f, r) == <<FileChars[f], DigitChars[r + 1]>>

DeltaFile(a, b) == abs(FileOf(a) - FileOf(b))

DeltaRank(a, b) == abs(RankOf(a) - RankOf(b))

\* Whether two squares share a rank, a file or a diagonal
Aligned(a, b) ==
    DeltaFile(a, b) = 0 \/ DeltaRank(a, b) = 0 \/ DeltaFile(a, b) = DeltaRank(a, b)

sign(n) == IF n > 0 THEN 1 ELSE IF n < 0 THEN -1 ELSE 0

\* The squares strictly between two aligned squares, walking from a toward b
Path(a, b) ==
    [i \in 1..(max(DeltaFile(a, b), DeltaRank(a, b)) - 1) |->
        SquareAt(FileOf(a) + i * sign(FileOf(b) - FileOf(a)),
                 RankOf(a) + i * sign(RankOf(b) - RankOf(a)))]

\* C12 as stated: for every pair of squares a, b of the board, a = b
\* included, get_squares_between(a, b) is empty when a and b share no rank,
\* file or diagonal and has max(|dfile|, |drank|) - 1 elements when they do.
C12_LengthAsStated ==
    (args.fn = "get_squares_between" /\ returned # <<>>)
    => LET a == args.curr_square
           b == args.new_square
       IN  IF Aligned(a, b)
           THEN Len(returned[1]) = max(DeltaFile(a, b), DeltaRank(a, b)) - 1
           ELSE returned[1] = <<>>

\* C12 as amended: get_squares_between(a, b) is empty when a = b and when a
\* and b share no rank, file or diagonal, and has max(|dfile|, |drank|) - 1
\* elements when a and b are distinct and share one.
C12_Length ==
    (args.fn = "get_squares_between" /\ returned # <<>>)
    => LET a == args.curr_square
           b == args.new_square
       IN  IF a # b /\ Aligned(a, b)
           THEN Len(returned[1]) = max(DeltaFile(a, b), DeltaRank(a, b)) - 1
           ELSE returned[1] = <<>>

\* get_squares_between returned the six squares between two opposite corners.
C12_Witness ==
    /\ args.fn = "get_squares_between"
    /\ returned # <<>>
    /\ DeltaFile(args.curr_square, args.new_square) = board_size - 1
    /\ DeltaRank(args.curr_square, args.new_square) = board_size - 1
    /\ Len(returned[1]) = board_size - 2

\* C13 as stated: for every aligned pair of squares a, b of the board,
\* get_squares_between(a, b) lists the squares strictly between them in path
\* order from a toward b, on ranks and files as on diagonals, also when b is
\* below or to the left of a.
C13_PathOrderAsStated ==
    (/\ args.fn = "get_squares_between"
     /\ returned # <<>>
     /\ Aligned(args.curr_square, args.new_square))
    => returned[1] = Path(args.curr_square, args.new_square)

\* C13 as amended: for a pair on a diagonal the list is in path order from a
\* toward b; for a pair on a file or on a rank the list holds the squares
\* strictly between them in ascending order of rank, or of file, whichever of
\* a and b is the lower, so it is in path order only when b is above or to
\* the right of a.
C13_PathOrder ==
    (/\ args.fn = "get_squares_between"
     /\ returned # <<>>
     /\ Aligned(args.curr_square, args.new_square))
    => LET a == args.curr_square
           b == args.new_square
       IN  IF DeltaFile(a, b) # 0 /\ DeltaRank(a, b) # 0
           THEN returned[1] = Path(a, b)
           ELSE IF FileOf(a) + RankOf(a) <= FileOf(b) + RankOf(b)
           THEN returned[1] = Path(a, b)
           ELSE returned[1] = Path(b, a)

\* get_squares_between was called down a file, from a8 to a5, and returned
\* a6 before a7.
C13_Witness ==
    /\ args.fn = "get_squares_between"
    /\ args.curr_square = <<"a", "8">>
    /\ args.new_square = <<"a", "5">>
    /\ returned = << << <<"a", "6">>, <<"a", "7">> >> >>

\* Whether a piece of board b stands strictly between two squares that share
\* a rank, a file or a diagonal
PieceBetween(b, from, to) ==
    /\ Aligned(from, to)
    /\ \E i \in DOMAIN Path(from, to) : Path(from, to)[i] \in DOMAIN b

\* C14: make_move returns False for a King, Bishop or Rook whenever a piece of
\* either colour stands strictly between source and destination, so every
\* accepted move of theirs crosses empty squares only; a Knight move of the
\* right shape onto a square its own side does not hold is never rejected for
\* the pieces in between: it is accepted unless a king would be attackable.
C14_PathObstruction ==
    \A curr_square \in DOMAIN board, new_square \in Squares :
        LET eff == make_move_effect(curr_square, new_square)
            piece == board[curr_square]
        IN  /\ (~can_jump(piece) /\ PieceBetween(board, curr_square, new_square))
               => eff.result = "False"
            /\ (/\ piece.kind = "knight"
                /\ state = "UNFINISHED"
                /\ get_color(piece) = turn
                /\ Knight_valid_move(curr_square, new_square)
                /\ get_color(get_piece_at_square(board, new_square)) # turn)
               => eff.exit \in {"ok", "check"}

\* A move of the right shape onto a free or enemy square was rejected because
\* a piece stood in the way.
C14_Witness ==
    /\ result = "False"
    /\ exit = "blocked"
    /\ \E curr_square \in DOMAIN board, new_square \in Squares :
          /\ get_color(board[curr_square]) = turn
          /\ board[curr_square].kind \in {"king", "bishop", "rook"}
          /\ valid_move(board[curr_square], curr_square, new_square)
          /\ PieceBetween(board, curr_square, new_square)

\* C15: for every piece and every reachable state, make_move(s, s) returns
\* False and leaves board, turn, state and grace flag unchanged, although
\* King.valid_move(s, s) is true.
C15_NullMoveRejected ==
    /\ \A s \in Texts \cup DOMAIN board :
          LET eff == make_move_effect(s, s)
          IN  /\ eff.result = "False"
              /\ ~eff.moved
              /\ eff.board = board
              /\ eff.turn = turn
              /\ eff.state = state
              /\ eff.game_end_imminent = game_end_imminent
    /\ \A s \in Squares : King_valid_move(s, s)

\* It is the turn of a side whose king, knight, bishop and rook are all on the
\* board: the null move of the king passes the shape test and stops at the
\* friendly capture test, that of the knight stops at the shape test.
C15_Witness ==
    /\ state = "UNFINISHED"
    /\ \A kind \in PieceKinds :
          \E s \in DOMAIN board :
              /\ board[s] = Piece(kind, turn)
              /\ make_move_effect(s, s).exit =
                     IF kind = "knight" THEN "bad_shape" ELSE "friendly_capture"
    /\ result = "False"
    /\ exit \in {"bad_shape", "friendly_capture"}

\* C16 as stated: for every pair of squares of the board, Bishop.valid_move
\* holds exactly when |dfile| = |drank| and both are nonzero, and
\* Rook.valid_move holds exactly when exactly one of dfile = 0, drank = 0
\* holds; both are false when source equals destination.
C16_ShapesAsStated ==
    (args.fn = "valid_move" /\ returned # <<>>)
    => LET df == DeltaFile(args.current, args.next)
           dr == DeltaRank(args.current, args.next)
       IN  /\ (args.piece.kind = "bishop")
              => (returned[1] <=> (df = dr /\ df # 0 /\ dr # 0))
           /\ (args.piece.kind = "rook")
              => (returned[1] <=> ((df = 0) # (dr = 0)))

\* C16 as amended: Bishop.valid_move holds exactly when |dfile| = |drank|,
\* both zero included, and Rook.valid_move holds exactly when dfile = 0 or
\* drank = 0, both zero included; so both hold when source equals destination.
C16_Shapes ==
    (args.fn = "valid_move" /\ returned # <<>>)
    => LET df == DeltaFile(args.current, args.next)
           dr == DeltaRank(args.current, args.next)
       IN  /\ (args.piece.kind = "bishop") => (returned[1] <=> (df = dr))
           /\ (args.piece.kind = "rook") => (returned[1] <=> (df = 0 \/ dr = 0))
           /\ (args.piece.kind \in {"bishop", "rook"} /\ args.current = args.next)
              => returned[1]

\* Bishop.valid_move was called with source equal to destination and
\* returned True.
C16_Witness ==
    /\ args.fn = "valid_move"
    /\ args.piece.kind = "bishop"
    /\ args.current = args.next
    /\ returned = <<TRUE>>

\* C17: for every pair of squares of the board, Knight.valid_move is true
\* exactly when (|dfile| = 2 and |drank| = 1) or (|dfile| = 1 and |drank| = 2).
C17_KnightShape ==
    (args.fn = "valid_move" /\ args.piece.kind = "knight" /\ returned # <<>>)
    => LET df == DeltaFile(args.current, args.next)
           dr == DeltaRank(args.current, args.next)
       IN  returned[1] <=> ((df = 2 /\ dr = 1) \/ (df = 1 /\ dr = 2))

\* Knight.valid_move was called with a displacement of two ranks and no file,
\* which only the third test turns down, and returned False.
C17_Witness ==
    /\ args.fn = "valid_move"
    /\ args.piece.kind = "knight"
    /\ DeltaFile(args.current, args.next) = 0
    /\ DeltaRank(args.current, args.next) = 2
    /\ returned = <<FALSE>>

\* The number of kings of a colour among the items of a dictionary
KingCount(items, color) ==
    Cardinality({i \in 1..Len(items) : items[i].piece = Piece("king", color)})

\* C18: locate_kings aborts with an error on a board that has no king of some
\* colour or more than one king of some colour, and returns the pair of the
\* kings' squares only when exactly one king of each colour is present.
C18_LocateKingsAborts ==
    (args.fn = "locate_kings" /\ returned # <<>>)
    => IF KingCount(args.board, "w") = 1 /\ KingCount(args.board, "b") = 1
       THEN /\ returned[1] \notin Exceptions
            /\ \E i, j \in 1..Len(args.board) :
                  /\ args.board[i].piece = Piece("king", "w")
                  /\ args.board[j].piece = Piece("king", "b")
                  /\ returned[1] = <<args.board[i].square, args.board[j].square>>
       ELSE returned[1] \in Exceptions

\* The texts of one letter and one digit that are no squares of the board
OffBoardSquares ==
    {t \in Texts : /\ Len(t) = 2
                   /\ t \notin Squares
                   /\ \E i \in 1..Len(FileChars) : FileChars[i] = t[1]
                   /\ is_digit(t[2])}

\* C19: a move whose destination is a letter and a digit outside the board
\* (file beyond 'h', rank 0 or 9) is rejected, and in every reachable state
\* every occupied square has its file in a..h and its rank in 1..8.
C19_OccupiedSquaresOnBoard ==
    /\ \A curr_square \in Texts, new_square \in OffBoardSquares :
          make_move_effect(curr_square, new_square).result = "False"
    /\ DOMAIN board \subseteq Squares

\* C20: an accepted make_move(from, to) changes the board at exactly two
\* squares: from becomes empty and to holds the piece that was on from; every
\* other square is unchanged; the number of pieces drops by one if to held an
\* enemy piece and is unchanged otherwise, so it never increases and never
\* exceeds 12.
C20_TwoSquaresChange ==
    /\ [][(result' = "True")
          => \E from \in DOMAIN board, to \in DOMAIN board' :
                /\ from # to
                /\ from \notin DOMAIN board'
                /\ board'[to] = board[from]
                /\ (to \in DOMAIN board)
                   => (get_color(board[to]) # get_color(board[from]))
                /\ \A sq \in (DOMAIN board \cup DOMAIN board') \ {from, to} :
                      /\ sq \in DOMAIN board
                      /\ sq \in DOMAIN board'
                      /\ board'[sq] = board[sq]
                /\ Cardinality(DOMAIN board') =
                      Cardinality(DOMAIN board)
                          - (IF to \in DOMAIN board THEN 1 ELSE 0)]_vars
    /\ [][Cardinality(DOMAIN board') <= Cardinality(DOMAIN board)]_vars
    /\ [](Cardinality(DOMAIN board) <= Cardinality(DOMAIN DefaultBoard))
    /\ Cardinality(DOMAIN DefaultBoard) = 12

\* The second accepted move was a capture: eleven pieces are left.
C20_Witness ==
    /\ result = "True"
    /\ ply = 2
    /\ Cardinality(DOMAIN board) = Cardinality(DOMAIN DefaultBoard) - 1

\* C21: in every reachable state the outcome agrees with the kings' places:
\* BLACK_WON implies the Black king is on rank 8 and the White king is not,
\* TIE that both are, WHITE_WON that the White king is and the Black king is
\* not, and UNFINISHED that the Black king is not on rank 8.
C21_OutcomeAgreesWithKings ==
    /\ (state = "BLACK_WON")
       => (KingOnGoal(board, "b") /\ ~KingOnGoal(board, "w"))
    /\ (state = "TIE")
       => (KingOnGoal(board, "b") /\ KingOnGoal(board, "w"))
    /\ (state = "WHITE_WON")
       => (KingOnGoal(board, "w") /\ ~KingOnGoal(board, "b"))
    /\ (state = "UNFINISHED") => ~KingOnGoal(board, "b")
    /\ state \in Terminal \cup {"UNFINISHED"}

\* The game has just ended as a tie, after the last move of the first line of
\* the book.
C21_Witness ==
    /\ state = "TIE"
    /\ result = "True"
    /\ ply = Len(Lines[1])
    /\ lines = {1}

\* C22: the grace flag is false initially and is never cleared once set; in
\* every reachable state it is true exactly when the White king is on rank 8;
\* whenever it is true in an UNFINISHED game it is Black's turn; and the
\* states TIE and WHITE_WON occur only with the flag true.
C22_GraceFlag ==
    /\ ~game_end_imminent
    /\ [][game_end_imminent => game_end_imminent']_vars
    /\ [](game_end_imminent <=> KingOnGoal(board, "w"))
    /\ []((game_end_imminent /\ state = "UNFINISHED") => turn = "b")
    /\ [](state \in {"TIE", "WHITE_WON"} => game_end_imminent)

\* The White king has just stepped onto rank 8: the flag is up, the game is
\* UNFINISHED and Black is to move.
C22_Witness ==
    /\ game_end_imminent
    /\ state = "UNFINISHED"
    /\ result = "True"
    /\ turn = "b"
    /\ KingOnGoal(board, "w")

\* C23: in every reachable state make_move from a square of the board onto
\* the square of the king of the other colour than the piece moved returns
\* False and raises nothing: the call leaves can_make_move before
\* results_in_check is reached, and when the game is UNFINISHED and the piece
\* is the turn owner's it leaves at the shape test or at the path test.
C23_KingNeverCaptured ==
    \A curr_square \in Squares \cap DOMAIN board :
        \A new_square \in Squares \cap DOMAIN board :
            (/\ is_king(board[new_square])
             /\ get_color(board[new_square]) # get_color(board[curr_square]))
            => LET eff == make_move_effect(curr_square, new_square)
               IN  /\ eff.result = "False"
                   /\ ~eff.moved
                   /\ eff.exit \in {"game_over", "not_turn_owner",
                                    "bad_shape", "blocked"}
                   /\ (/\ state = "UNFINISHED"
                       /\ get_color(board[curr_square]) = turn)
                      => eff.exit \in {"bad_shape", "blocked"}

\* A call was rejected at the path test while a rook or bishop of the turn
\* owner is lined up with the other side's king behind a piece: its move onto
\* the king's square passes the shape test and stops at the path test.
C23_Witness ==
    /\ state = "UNFINISHED"
    /\ result = "False"
    /\ exit = "blocked"
    /\ \E curr_square \in Squares \cap DOMAIN board :
          \E new_square \in Squares \cap DOMAIN board :
              /\ get_color(board[curr_square]) = turn
              /\ is_king(board[new_square])
              /\ get_color(board[new_square]) # turn
              /\ make_move_effect(curr_square, new_square).exit = "blocked"

=============================================================================
